---- MODULE Spec2Model ----
(***************************************************************************)
(* GPU identity and capacity planning of Sakura_Launcher_GUI:              *)
(* src/src/gpu.py (GPUDisplayHelper, GPUManager) and the calculator-facing *)
(* half of src/src/sakura.py (SakuraCalculator.recommend_config).          *)
(*                                                                         *)
(* Python strings are sequences of one-character strings, so that          *)
(* formatting, splitting and integer parsing are computed and not assumed. *)
(* An optional value is None or Some(v).                                   *)
(***************************************************************************)
EXTENDS Integers, Sequences, FiniteSets, TLC

None == [some |-> FALSE]
Some(v) == [some |-> TRUE, val |-> v]

(***************************************************************************)
(* Python str primitives                                                   *)
(***************************************************************************)

\* s[n:]
DropFirst(s, n) == SubSeq(s, n + 1, Len(s))

StartsWith(s, pre) ==
    /\ Len(pre) <= Len(s)
    /\ SubSeq(s, 1, Len(pre)) = pre

\* `sub in s`
Contains(s, sub) ==
    \E i \in 0..(Len(s) - Len(sub)) : SubSeq(s, i + 1, i + Len(sub)) = sub

\* s.find(sub) of a sub that occurs in s: the offset of its leftmost occurrence
FindFirst(s, sub) ==
    CHOOSE i \in 0..(Len(s) - Len(sub)) :
        /\ SubSeq(s, i + 1, i + Len(sub)) = sub
        /\ \A j \in 0..(i - 1) : SubSeq(s, j + 1, j + Len(sub)) # sub

\* s.split(sep) for a non-empty sep: leftmost, non-overlapping occurrences
RECURSIVE StrSplit(_, _)
StrSplit(s, sep) ==
    IF ~Contains(s, sep)
    THEN <<s>>
    ELSE <<SubSeq(s, 1, FindFirst(s, sep))>>
             \o StrSplit(DropFirst(s, FindFirst(s, sep) + Len(sep)), sep)

\* s.rstrip(ch) for a one-character ch
RECURSIVE StrRStrip(_, _)
StrRStrip(s, ch) ==
    IF Len(s) > 0 /\ s[Len(s)] = ch
    THEN StrRStrip(SubSeq(s, 1, Len(s) - 1), ch)
    ELSE s

\* s.strip(), of the blank the model's strings have
RECURSIVE StrStrip(_)
StrStrip(s) ==
    IF Len(s) > 0 /\ s[1] = " " THEN StrStrip(Tail(s))
    ELSE IF Len(s) > 0 /\ s[Len(s)] = " " THEN StrStrip(SubSeq(s, 1, Len(s) - 1))
    ELSE s

UpperOf ==
    [c \in {"a", "b", "c", "d", "e", "f", "i", "l", "m", "n", "t", "v", "x"} |->
        CASE c = "a" -> "A" [] c = "b" -> "B" [] c = "c" -> "C" [] c = "d" -> "D"
          [] c = "e" -> "E" [] c = "f" -> "F" [] c = "i" -> "I" [] c = "l" -> "L"
          [] c = "m" -> "M" [] c = "n" -> "N" [] c = "t" -> "T" [] c = "v" -> "V"
          [] c = "x" -> "X"]

\* s.upper()
StrUpper(s) ==
    [i \in 1..Len(s) |-> IF s[i] \in DOMAIN UpperOf THEN UpperOf[s[i]] ELSE s[i]]

DigitVal ==
    [c \in {"0", "1", "2", "3", "4", "5", "6", "7", "8", "9",
            "a", "b", "c", "d", "e", "f", "A", "B", "C", "D", "E", "F"} |->
        CASE c = "0" -> 0 [] c = "1" -> 1 [] c = "2" -> 2 [] c = "3" -> 3
          [] c = "4" -> 4 [] c = "5" -> 5 [] c = "6" -> 6 [] c = "7" -> 7
          [] c = "8" -> 8 [] c = "9" -> 9
          [] c \in {"a", "A"} -> 10 [] c \in {"b", "B"} -> 11
          [] c \in {"c", "C"} -> 12 [] c \in {"d", "D"} -> 13
          [] c \in {"e", "E"} -> 14 [] c \in {"f", "F"} -> 15]

\* the digits of an int literal: digits of the base, single underscores
\* between them
DigitsOk(s, base) ==
    /\ Len(s) > 0
    /\ \A i \in 1..Len(s) :
           \/ s[i] \in DOMAIN DigitVal /\ DigitVal[s[i]] < base
           \/ s[i] = "_"
    /\ s[1] # "_" /\ s[Len(s)] # "_"
    /\ \A i \in 1..(Len(s) - 1) : ~(s[i] = "_" /\ s[i + 1] = "_")

RECURSIVE DigitsValue(_, _, _)
DigitsValue(s, base, acc) ==
    IF Len(s) = 0 THEN acc
    ELSE IF s[1] = "_" THEN DigitsValue(Tail(s), base, acc)
    ELSE DigitsValue(Tail(s), base, acc * base + DigitVal[s[1]])

\* the literal after its sign: for base 16 a 0x prefix may come first
IntDigits(u, base) ==
    IF base = 16 /\ (StartsWith(u, <<"0", "x">>) \/ StartsWith(u, <<"0", "X">>))
    THEN IF Len(u) > 2 /\ u[3] = "_" THEN DropFirst(u, 3) ELSE DropFirst(u, 2)
    ELSE u

IntUnsigned(neg, w, base) ==
    IF DigitsOk(w, base)
    THEN Some(IF neg THEN 0 - DigitsValue(w, base, 0) ELSE DigitsValue(w, base, 0))
    ELSE None

IntStripped(t, base) ==
    IF Len(t) > 0 /\ t[1] \in {"+", "-"}
    THEN IntUnsigned(t[1] = "-", IntDigits(Tail(t), base), base)
    ELSE IntUnsigned(FALSE, IntDigits(t, base), base)

\* int(s, base) for base 10 or 16: None stands for ValueError
PyInt(s, base) == IntStripped(StrStrip(s), base)

DigitChar == <<"0", "1", "2", "3", "4", "5", "6", "7", "8", "9">>

RECURSIVE NatStr(_)
NatStr(n) ==
    IF n < 10 THEN <<DigitChar[n + 1]>>
    ELSE NatStr(n \div 10) \o <<DigitChar[(n % 10) + 1]>>

\* str(i), which is also how an f-string renders an int
PyStr(i) == IF i < 0 THEN <<"-">> \o NatStr(0 - i) ELSE NatStr(i)

(***************************************************************************)
(* GPUDisplayHelper                                                        *)
(***************************************************************************)

GpuTag == <<" ", "(", "G", "P", "U", " ">>

\* f"{gpu_info.name} (GPU {index})" if gpu_info.pci_bus_id else gpu_info.name
create_display_name(gpu_info, index) ==
    IF Len(gpu_info.pci_bus_id) > 0
    THEN gpu_info.name \o GpuTag \o PyStr(index) \o <<")">>
    ELSE gpu_info.name

Parsed(raised, name, index) == [raised |-> raised, name |-> name, index |-> index]

\* the try block: return name_part, index, or on ValueError display_name, None
parse_index(display_name, name_part, index) ==
    IF index.some
    THEN Parsed(FALSE, name_part, index)
    ELSE Parsed(FALSE, display_name, None)

\* name_part, index_part = parts: a ValueError unless there are two parts, and
\* it is raised outside the try block
parse_parts(display_name, parts) ==
    IF Len(parts) # 2
    THEN Parsed(TRUE, display_name, None)
    ELSE parse_index(display_name, parts[1], PyInt(StrRStrip(parts[2], ")"), 10))

\* [raised, name, index]
parse_display_name(display_name) ==
    IF Contains(display_name, GpuTag) /\ Contains(display_name, <<")">>)
    THEN parse_parts(display_name, StrSplit(display_name, GpuTag))
    ELSE Parsed(FALSE, display_name, None)

Found(raised, key) == [raised |-> raised, key |-> key]

\* matching_keys[gpu_index] when gpu_index < len(matching_keys), else the
\* first; a negative index counts from the end, and below -len is an IndexError
select_matching(matching_keys, gpu_index) ==
    IF Len(matching_keys) = 0
    THEN Found(FALSE, None)
    ELSE IF gpu_index.some /\ gpu_index.val < Len(matching_keys)
    THEN IF gpu_index.val >= 0
         THEN Found(FALSE, Some(matching_keys[gpu_index.val + 1]))
         ELSE IF Len(matching_keys) + gpu_index.val >= 0
         THEN Found(FALSE, Some(matching_keys[Len(matching_keys) + gpu_index.val + 1]))
         ELSE Found(TRUE, None)
    ELSE Found(FALSE, Some(matching_keys[1]))

\* the keys of the entries named name, in the order of the map
RECURSIVE keys_named(_, _, _)
keys_named(gpu_info_map, name, i) ==
    IF i > Len(gpu_info_map) THEN << >>
    ELSE IF gpu_info_map[i].info.name = name
    THEN <<gpu_info_map[i].key>> \o keys_named(gpu_info_map, name, i + 1)
    ELSE keys_named(gpu_info_map, name, i + 1)

find_parsed(parsed, gpu_info_map) ==
    IF parsed.raised
    THEN Found(TRUE, None)
    ELSE select_matching(keys_named(gpu_info_map, parsed.name, 1), parsed.index)

\* [raised, key]: raised when parse_display_name raises or the index is
\* below -len(matching_keys)
find_gpu_key(display_name, gpu_info_map) ==
    IF \E i \in 1..Len(gpu_info_map) : gpu_info_map[i].key = display_name
    THEN Found(FALSE, Some(display_name))
    ELSE find_parsed(parse_display_name(display_name), gpu_info_map)

(***************************************************************************)
(* The device map: a dict in insertion order, as a sequence of entries     *)
(* [key, info, srcs]. srcs is not program state: it records which physical *)
(* GPUs' probe records went into the entry.                                *)
(***************************************************************************)

MapHas(m, k) == \E i \in 1..Len(m) : m[i].key = k

MapPos(m, k) == CHOOSE i \in 1..Len(m) : m[i].key = k

NVIDIA == "NVIDIA"
AMD == "AMD"
INTEL == "INTEL"
UNKNOWN == "UNKNOWN"

\* GPUInfo(...): a record no check has been made for yet
GPUInfo(name, gpu_type, dedicated_gpu_memory, pci_bus_id, avail) ==
    [name |-> name, gpu_type |-> gpu_type,
     dedicated_gpu_memory |-> dedicated_gpu_memory,
     pci_bus_id |-> pci_bus_id,
     avail_dedicated_gpu_memory |-> avail,
     ability |-> None]

\* GPUInfo.merge_from: a field the newer record has a value for replaces the
\* old one, a field it has none for is kept; the cached ability is kept
merge_from(old, new) ==
    [old EXCEPT
        !.dedicated_gpu_memory =
            IF new.dedicated_gpu_memory # 0 THEN new.dedicated_gpu_memory ELSE @,
        !.pci_bus_id = IF Len(new.pci_bus_id) > 0 THEN new.pci_bus_id ELSE @,
        !.avail_dedicated_gpu_memory =
            IF new.avail_dedicated_gpu_memory.some
            THEN new.avail_dedicated_gpu_memory ELSE @]

upper_type(upper) ==
    IF Contains(upper, <<"N", "V", "I", "D", "I", "A">>) THEN NVIDIA
    ELSE IF Contains(upper, <<"A", "M", "D">>) \/ Contains(upper, <<"A", "T", "I">>)
    THEN AMD
    ELSE UNKNOWN

get_gpu_type(gpu_name) == upper_type(StrUpper(gpu_name))

\* int(device_id, 16), and 0 on ValueError
pci_device_index(device_id) == IF device_id.some THEN device_id.val ELSE 0

get_gpu_index_from_pci(pci_bus_id) ==
    IF Len(pci_bus_id) > 0 /\ Contains(pci_bus_id, <<":">>)
    THEN pci_device_index(PyInt(StrSplit(pci_bus_id, <<":">>)[2], 16))
    ELSE 0

\* the index both __add_gpu_to_list and __universal_detect_nvidia_gpu render:
\* get_gpu_index_from_pci(pci_bus_id) if pci_bus_id else len(self.nvidia_gpus)
nvidia_index(gpu_info, nvidia_list) ==
    IF Len(gpu_info.pci_bus_id) > 0
    THEN get_gpu_index_from_pci(gpu_info.pci_bus_id)
    ELSE Len(nvidia_list)

\* __add_gpu_to_list on the lists [nvidia, amd, intel]
add_gpu_to_list(lists, gpu_info) ==
    IF gpu_info.gpu_type = NVIDIA
    THEN [lists EXCEPT !.nvidia =
            Append(@, create_display_name(gpu_info, nvidia_index(gpu_info, @)))]
    ELSE IF gpu_info.gpu_type = AMD
    THEN [lists EXCEPT !.amd = Append(@, gpu_info.name)]
    ELSE IF gpu_info.gpu_type = INTEL
    THEN [lists EXCEPT !.intel = Append(@, gpu_info.name)]
    ELSE lists

(***************************************************************************)
(* Memory figures. A figure in GiB is held exactly as [whole, frac]: whole *)
(* GiB plus frac bytes, frac < 2^30. The float quotient of a byte count by *)
(* 2^30 is exact, and a calculator's float compares with such a quotient   *)
(* as its value rounded up to the next multiple of 2^-30 does.             *)
(***************************************************************************)

GiB == 1073741824

BytesToGiB(bytes) == [whole |-> bytes \div GiB, frac |-> bytes % GiB]

\* math.ceil
GiBCeil(g) == [whole |-> IF g.frac = 0 THEN g.whole ELSE g.whole + 1, frac |-> 0]

\* an int number of GiB, as minimal_gpu_memory_gib is
GiBInt(n) == [whole |-> n, frac |-> 0]

GiBLess(a, b) == a.whole < b.whole \/ (a.whole = b.whole /\ a.frac < b.frac)

GiBLeq(a, b) == ~GiBLess(b, a)

\* a figure given in 1/1024 GiB
GiBOfMiB(m) == [whole |-> m \div 1024, frac |-> (m % 1024) * 1048576]

(***************************************************************************)
(* The external calculator, a pure function of the model and the context   *)
(* length that may fail. A calculator is [base, per, zigzag, fail_above]:  *)
(* base MiB plus per MiB for each 1536 tokens of context; a zigzag one     *)
(* needs 4096 MiB more at every odd number of 1536-token slots, so it is   *)
(* not monotonic; it raises for a context longer than fail_above, if any.  *)
(***************************************************************************)

\* calculate_memory_requirements(ctx)["total_size_gib"], None when it raises
calculate_memory_requirements(calc, context_length) ==
    IF calc.fail_above.some /\ context_length > calc.fail_above.val
    THEN None
    ELSE Some(GiBOfMiB(calc.base + (calc.per * context_length) \div 1536
                       + IF calc.zigzag /\ (context_length \div 1536) % 2 = 1
                         THEN 4096 ELSE 0))

SlotContext == 1536
MaxParallel == 16

Config(raised, context_length, n_parallel) ==
    [raised |-> raised, context_length |-> context_length, n_parallel |-> n_parallel]

\* the loop of recommend_config with `<` for `<=`
RECURSIVE recommend_search_lt(_, _, _)
recommend_search_lt(calc, available_memory_gib, np) ==
    IF np < 1
    THEN Config(FALSE, SlotContext, 1)
    ELSE IF ~calculate_memory_requirements(calc, SlotContext * np).some
    THEN Config(TRUE, SlotContext, 1)
    ELSE IF GiBLess(calculate_memory_requirements(calc, SlotContext * np).val,
                    available_memory_gib)
    THEN Config(FALSE, SlotContext * np, np)
    ELSE recommend_search_lt(calc, available_memory_gib, np - 1)

recommend_config_lt(calc, available_memory_gib) ==
    recommend_search_lt(calc, available_memory_gib, MaxParallel)

\* the loop of recommend_config from np down to 1: the first np that fits, the
\* floor when none does; raised when the calculator raises on the way
RECURSIVE recommend_search(_, _, _)
recommend_search(calc, available_memory_gib, np) ==
    IF np < 1
    THEN Config(FALSE, SlotContext, 1)
    ELSE IF ~calculate_memory_requirements(calc, SlotContext * np).some
    THEN Config(TRUE, SlotContext, 1)
    ELSE IF GiBLeq(calculate_memory_requirements(calc, SlotContext * np).val,
                   available_memory_gib)
    THEN Config(FALSE, SlotContext * np, np)
    ELSE recommend_search(calc, available_memory_gib, np - 1)

recommend_config(calc, available_memory_gib) ==
    recommend_search(calc, available_memory_gib, MaxParallel)

(***************************************************************************)
(* Ability checks. An ability is [is_capable, reason]; the reason is the   *)
(* message's kind, "" for the empty message. A model is None (not in the   *)
(* catalogue) or Some([minimal_gpu_memory_gib]).                           *)
(***************************************************************************)

Ability(is_capable, reason) == [is_capable |-> is_capable, reason |-> reason]

\* _check_static_memory without math.ceil
_check_static_memory_noceil(gpu_info, model) ==
    IF /\ model.some
       /\ model.val.minimal_gpu_memory_gib # 0
       /\ GiBLess(BytesToGiB(gpu_info.dedicated_gpu_memory),
                  GiBInt(model.val.minimal_gpu_memory_gib))
    THEN Ability(FALSE, "below minimum of total memory")
    ELSE Ability(TRUE, "")

\* gpu_mem_gib of _check_static_memory
static_mem_gib(gpu_mem) ==
    IF gpu_mem > GiB THEN GiBCeil(BytesToGiB(gpu_mem)) ELSE BytesToGiB(gpu_mem)

_check_static_memory(gpu_info, model) ==
    IF /\ model.some
       /\ model.val.minimal_gpu_memory_gib # 0
       /\ GiBLess(static_mem_gib(gpu_info.dedicated_gpu_memory),
                  GiBInt(model.val.minimal_gpu_memory_gib))
    THEN Ability(FALSE, "below minimum of total memory")
    ELSE Ability(TRUE, "")

\* the except branch made the static check of the total memory
dynamic_fallback_total(gpu_info, model) == _check_static_memory(gpu_info, model)

\* the except branch of _check_dynamic_memory: the remaining memory, as it
\* is, against the model's minimum
dynamic_fallback(gpu_info, model) ==
    IF /\ model.val.minimal_gpu_memory_gib # 0
       /\ GiBLess(BytesToGiB(gpu_info.avail_dedicated_gpu_memory.val),
                  GiBInt(model.val.minimal_gpu_memory_gib))
    THEN Ability(FALSE, "below minimum of remaining memory")
    ELSE Ability(TRUE, "")

\* the config of the try block: the caller's pair when both are given, else
\* the recommended one
dynamic_config(calc, gpu_mem_gib, context_length, n_parallel) ==
    IF ~context_length.some \/ ~n_parallel.some
    THEN recommend_config(calc, gpu_mem_gib)
    ELSE Config(FALSE, context_length.val, n_parallel.val)

\* the comparison of the try block
dynamic_compare(gpu_info, model, gpu_mem_gib, memory_usage) ==
    IF ~memory_usage.some
    THEN dynamic_fallback(gpu_info, model)
    ELSE IF GiBLess(gpu_mem_gib, memory_usage.val)
    THEN Ability(FALSE, "remaining memory below requirement")
    ELSE Ability(TRUE, "")

\* the try block, the calculator's exception caught
dynamic_try(gpu_info, model, calc, gpu_mem_gib, config) ==
    IF config.raised
    THEN dynamic_fallback(gpu_info, model)
    ELSE dynamic_compare(gpu_info, model, gpu_mem_gib,
                         calculate_memory_requirements(calc, config.context_length))

\* _check_dynamic_memory comparing the total memory
_check_dynamic_memory_total(gpu_info, model, calc, context_length, n_parallel) ==
    IF ~model.some
    THEN Ability(TRUE, "")
    ELSE dynamic_try(gpu_info, model, calc, BytesToGiB(gpu_info.dedicated_gpu_memory),
                     dynamic_config(calc, BytesToGiB(gpu_info.dedicated_gpu_memory),
                                    context_length, n_parallel))

_check_dynamic_memory(gpu_info, model, calc, context_length, n_parallel) ==
    IF ~model.some
    THEN Ability(TRUE, "")
    ELSE dynamic_try(gpu_info, model, calc,
                     BytesToGiB(gpu_info.avail_dedicated_gpu_memory.val),
                     dynamic_config(calc,
                                    BytesToGiB(gpu_info.avail_dedicated_gpu_memory.val),
                                    context_length, n_parallel))

(***************************************************************************)
(* The machine the program runs on: the physical GPUs that may be          *)
(* installed, and what a probe returns for one.                            *)
(***************************************************************************)

NameNvidiaA == <<"N", "V", "I", "D", "I", "A", " ", "A">>
NameAmdB == <<"A", "M", "D", " ", "B">>
NameIntelC == <<"I", "n", "t", "e", "l", " ", "C">>

\* "00000000:<bus>:00.0", as nvidia-smi prints pci.bus_id
PciBus(bus) ==
    <<"0", "0", "0", "0", "0", "0", "0", "0", ":">> \o bus
        \o <<":", "0", "0", ".", "0">>

\* two NVIDIA cards of one name, an AMD card and a card of no supported vendor
Hardware ==
    <<[name |-> NameNvidiaA, pci |-> PciBus(<<"0", "1">>), total |-> GiB + 1],
      [name |-> NameNvidiaA, pci |-> PciBus(<<"0", "2">>), total |-> GiB + GiB \div 2],
      [name |-> NameAmdB, pci |-> PciBus(<<"0", "3">>), total |-> GiB],
      [name |-> NameIntelC, pci |-> PciBus(<<"0", "0">>), total |-> GiB \div 2]>>

PhysIds == DOMAIN Hardware

NvidiaIds == {p \in PhysIds : get_gpu_type(Hardware[p].name) = NVIDIA}

\* the live readings of the remaining memory a probe may return
AvailValues == {GiB \div 2, GiB}

\* the most GPUs a machine has installed
MaxGpus == 3

Machines == {m \in SUBSET PhysIds : Cardinality(m) <= MaxGpus}

\* the orders in which a probe may report the GPUs in ids
ProbeOrders(ids) ==
    {o \in [1..Cardinality(ids) -> ids] : \A i, j \in DOMAIN o : i # j => o[i] # o[j]}

\* an adapter of windows.get_gpu_mem_info(): has_pci tells whether the object
\* has a pci_bus_id attribute
StaticAdapter(p, has_pci) ==
    [phys |-> p, AdapterString |-> Hardware[p].name,
     MemorySize |-> Hardware[p].total,
     has_pci |-> has_pci, pci_bus_id |-> Hardware[p].pci]

\* a record of get_nvidia_gpus(), with a live reading; with_pci tells whether
\* the tool printed a bus id
NvidiaRecord(p, with_pci, avail) ==
    [phys |-> p,
     info |-> GPUInfo(Hardware[p].name, NVIDIA, Hardware[p].total,
                      IF with_pci THEN Hardware[p].pci ELSE << >>, Some(avail))]

(***************************************************************************)
(* GPUManager                                                              *)
(***************************************************************************)

VARIABLES
    platform,       \* platform.system()
    machine,        \* the physical GPUs installed
    gpu_info_map,   \* self.gpu_info_map, a sequence of [key, info, srcs]
    nvidia_gpus,    \* self.nvidia_gpus
    amd_gpus,       \* self.amd_gpus
    intel_gpus,     \* self.intel_gpus
    constructed,    \* whether __init__ has run detect_gpus
    pass,           \* what the probes reported in the detection pass, and the
                    \* key each NVIDIA label was rendered for (not program state)
    call,           \* the last public call: its arguments and what it returned
    input           \* the arguments of a pure function under check

vars == <<platform, machine, gpu_info_map, nvidia_gpus, amd_gpus, intel_gpus,
          constructed, pass, call, input>>

NoCall == [op |-> "none"]

NoPass == [static |-> {}, nvidia |-> {}, pci |-> {}, rendered |-> << >>]

Entry(key, info, srcs) == [key |-> key, info |-> info, srcs |-> srcs]

\* if gpu_key in self.gpu_info_map: merge_from, else insert
map_merge(map, gpu_key, gpu_info, phys) ==
    IF MapHas(map, gpu_key)
    THEN [map EXCEPT ![MapPos(map, gpu_key)] =
            Entry(@.key, merge_from(@.info, gpu_info), @.srcs \cup {phys})]
    ELSE Append(map, Entry(gpu_key, gpu_info, {phys}))

\* one round of the loop of __universal_detect_nvidia_gpu on [map, nvidia,
\* rendered]
universal_step(st, record, gpu_key, display_name) ==
    [map |-> map_merge(st.map, gpu_key, record.info, record.phys),
     nvidia |-> Append(st.nvidia, display_name),
     rendered |-> Append(st.rendered,
                         [label |-> display_name, key |-> gpu_key,
                          phys |-> record.phys])]

RECURSIVE universal_loop(_, _, _)
universal_loop(st, records, i) ==
    IF i > Len(records)
    THEN st
    ELSE universal_loop(
             universal_step(
                 st, records[i],
                 IF Len(records[i].info.pci_bus_id) > 0
                 THEN records[i].info.pci_bus_id ELSE records[i].info.name,
                 create_display_name(records[i].info,
                                     nvidia_index(records[i].info, st.nvidia))),
             records, i + 1)

\* __universal_detect_nvidia_gpu: the list is reset, then filled
universal_detect_nvidia_gpu(map, records) ==
    universal_loop([map |-> map, nvidia |-> << >>, rendered |-> << >>], records, 1)

\* one round of the loop of detect_gpus_windows on [map, lists]: an adapter
\* whose key the map has is ignored, and taken for the device of that entry
static_step(st, adapter, gpu_key, gpu_info) ==
    IF ~MapHas(st.map, gpu_key)
    THEN [map |-> Append(st.map, Entry(gpu_key, gpu_info, {adapter.phys})),
          lists |-> add_gpu_to_list(st.lists, gpu_info)]
    ELSE [map |-> [st.map EXCEPT ![MapPos(st.map, gpu_key)].srcs = @ \cup {adapter.phys}],
          lists |-> st.lists]

RECURSIVE static_loop(_, _, _)
static_loop(st, adapters, i) ==
    IF i > Len(adapters)
    THEN st
    ELSE static_loop(
             static_step(
                 st, adapters[i],
                 IF adapters[i].has_pci THEN adapters[i].pci_bus_id
                 ELSE adapters[i].AdapterString,
                 GPUInfo(adapters[i].AdapterString,
                         get_gpu_type(adapters[i].AdapterString),
                         adapters[i].MemorySize,
                         IF adapters[i].has_pci THEN adapters[i].pci_bus_id ELSE << >>,
                         None)),
             adapters, i + 1)

\* the try block of the static probe: adapters is None when it raises
static_detect(map, lists, adapters) ==
    IF adapters.some
    THEN static_loop([map |-> map, lists |-> lists], adapters.val, 1)
    ELSE [map |-> map, lists |-> lists]

RECURSIVE amd_names(_, _)
amd_names(names, i) ==
    IF i > Len(names) THEN << >>
    ELSE IF Contains(names[i], <<"A", "M", "D">>) \/ Contains(names[i], <<"A", "T", "I">>)
    THEN <<names[i]>> \o amd_names(names, i + 1)
    ELSE amd_names(names, i + 1)

Reversed(s) == [i \in 1..Len(s) |-> s[Len(s) + 1 - i]]

\* the AMD names of c.Win32_VideoController(), reversed
wmi_amd_gpus(names) == Reversed(amd_names(names, 1))

\* the physical GPUs a probe's records carried a bus id for
WithPci(adapters, records) ==
    {adapters[i].phys : i \in {j \in DOMAIN adapters : adapters[j].has_pci}}
        \cup {records[i].phys :
                 i \in {j \in DOMAIN records : Len(records[j].info.pci_bus_id) > 0}}

\* self.gpu_info_map = {}, the three lists empty; detect_gpus() has yet to run
Init ==
    /\ platform \in {"Windows", "Linux", "Darwin"}
    /\ machine \in Machines
    /\ gpu_info_map = << >>
    /\ nvidia_gpus = << >>
    /\ amd_gpus = << >>
    /\ intel_gpus = << >>
    /\ constructed = FALSE
    /\ pass = NoPass
    /\ call = NoCall
    /\ input = NoCall

LinuxDetected(nv, records) ==
    /\ gpu_info_map' = nv.map
    /\ nvidia_gpus' = nv.nvidia
    /\ pass' = [static |-> {},
                nvidia |-> {records[i].phys : i \in DOMAIN records},
                pci |-> WithPci(<< >>, records),
                rendered |-> nv.rendered]

\* detect_gpus_linux
DetectLinux(records) ==
    /\ ~constructed
    /\ platform = "Linux"
    /\ LinuxDetected(universal_detect_nvidia_gpu(gpu_info_map, records), records)
    /\ constructed' = TRUE
    /\ call' = NoCall
    /\ UNCHANGED <<platform, machine, amd_gpus, intel_gpus, input>>

WindowsDetected(st, nv, adapters, records, wmi) ==
    /\ gpu_info_map' = nv.map
    /\ nvidia_gpus' = nv.nvidia
    /\ amd_gpus' = IF wmi.some THEN wmi_amd_gpus(wmi.val) ELSE st.lists.amd
    /\ intel_gpus' = st.lists.intel
    /\ pass' = [static |-> {adapters[i].phys : i \in DOMAIN adapters},
                nvidia |-> {records[i].phys : i \in DOMAIN records},
                pci |-> WithPci(adapters, records),
                rendered |-> nv.rendered]

WindowsStatic(st, adapters, records, wmi) ==
    WindowsDetected(st, universal_detect_nvidia_gpu(st.map, records),
                    adapters, records, wmi)

\* detect_gpus_windows: adapters is None when the static probe raises, wmi is
\* None when the WMI query raises
DetectWindows(adapters, records, wmi) ==
    /\ ~constructed
    /\ platform = "Windows"
    /\ WindowsStatic(
           static_detect(gpu_info_map,
                         [nvidia |-> nvidia_gpus, amd |-> amd_gpus, intel |-> intel_gpus],
                         adapters),
           IF adapters.some THEN adapters.val ELSE << >>, records, wmi)
    /\ constructed' = TRUE
    /\ call' = NoCall
    /\ UNCHANGED <<platform, machine, input>>

\* detect_gpus on any other platform: a warning, nothing detected
DetectOther ==
    /\ ~constructed
    /\ platform \notin {"Windows", "Linux"}
    /\ constructed' = TRUE
    /\ call' = NoCall
    /\ UNCHANGED <<platform, machine, gpu_info_map, nvidia_gpus, amd_gpus,
                   intel_gpus, pass, input>>

Checked(raised, key, before, ret, map) ==
    [raised |-> raised, key |-> key, before |-> before, ret |-> ret, map |-> map]

\* gpu_info.ability = ability; return ability
check_store(map, pos, key, ability) ==
    Checked(FALSE, Some(key), Some(map[pos].info), Some(ability),
            [map EXCEPT ![pos].info.ability = Some(ability)])

\* the checks of check_gpu_ability on the device found
check_device(map, pos, key, model, calc, context_length, n_parallel) ==
    IF map[pos].info.gpu_type \notin {NVIDIA, AMD}
    THEN Checked(FALSE, Some(key), Some(map[pos].info),
                 Some(Ability(FALSE, "unsupported vendor")), map)
    ELSE IF map[pos].info.avail_dedicated_gpu_memory.some
    THEN check_store(map, pos, key,
                     _check_dynamic_memory(map[pos].info, model, calc,
                                           context_length, n_parallel))
    ELSE check_store(map, pos, key, _check_static_memory(map[pos].info, model))

\* if not gpu_key or gpu_key not in self.gpu_info_map: not found
check_found(map, found, model, calc, context_length, n_parallel) ==
    IF found.raised
    THEN Checked(TRUE, None, None, None, map)
    ELSE IF ~found.key.some \/ Len(found.key.val) = 0 \/ ~MapHas(map, found.key.val)
    THEN Checked(FALSE, None, None, Some(Ability(FALSE, "not found")), map)
    ELSE check_device(map, MapPos(map, found.key.val), found.key.val,
                      model, calc, context_length, n_parallel)

\* check_gpu_ability: [raised, key, before, ret, map], model being
\* SAKURA_LIST[model_name] and calc the calculator that model has
check_gpu_ability(map, gpu_display_name, model, calc, context_length, n_parallel) ==
    check_found(map, find_gpu_key(gpu_display_name, map), model, calc,
                context_length, n_parallel)

CheckReturned(r, gpu_display_name, model, calc, context_length, n_parallel) ==
    /\ gpu_info_map' = r.map
    /\ call' = [op |-> "check_gpu_ability", label |-> gpu_display_name,
                model |-> model, calc |-> calc,
                context_length |-> context_length, n_parallel |-> n_parallel,
                raised |-> r.raised, key |-> r.key, before |-> r.before,
                ret |-> r.ret]

CheckGpuAbility(gpu_display_name, model, calc, context_length, n_parallel) ==
    /\ constructed
    /\ CheckReturned(check_gpu_ability(gpu_info_map, gpu_display_name, model, calc,
                                       context_length, n_parallel),
                     gpu_display_name, model, calc, context_length, n_parallel)
    /\ UNCHANGED <<platform, machine, nvidia_gpus, amd_gpus, intel_gpus,
                   constructed, pass, input>>

NoEnv == [CUDA_VISIBLE_DEVICES |-> None, HIP_VISIBLE_DEVICES |-> None]

EnvSet(raised, key, env) == [raised |-> raised, key |-> key, env |-> env]

\* the branches of set_gpu_env without the subtraction for AMD
env_of_type_nosub(gpu_type, key, nvidia_list, env, selected_index) ==
    IF gpu_type = NVIDIA
    THEN EnvSet(FALSE, Some(key),
                [env EXCEPT !.CUDA_VISIBLE_DEVICES = Some(PyStr(selected_index))])
    ELSE IF gpu_type = AMD
    THEN EnvSet(FALSE, Some(key),
                [env EXCEPT !.HIP_VISIBLE_DEVICES = Some(PyStr(selected_index))])
    ELSE EnvSet(FALSE, Some(key), env)

\* the branches of set_gpu_env on gpu_info.gpu_type
env_of_type(gpu_type, key, nvidia_list, env, selected_index) ==
    IF gpu_type = NVIDIA
    THEN EnvSet(FALSE, Some(key),
                [env EXCEPT !.CUDA_VISIBLE_DEVICES = Some(PyStr(selected_index))])
    ELSE IF gpu_type = AMD
    THEN EnvSet(FALSE, Some(key),
                [env EXCEPT !.HIP_VISIBLE_DEVICES =
                    Some(PyStr(selected_index - Len(nvidia_list)))])
    ELSE EnvSet(FALSE, Some(key), env)

\* if not gpu_key: return env
env_found(map, found, nvidia_list, env, selected_index) ==
    IF found.raised
    THEN EnvSet(TRUE, None, env)
    ELSE IF ~found.key.some \/ Len(found.key.val) = 0
    THEN EnvSet(FALSE, None, env)
    ELSE env_of_type(map[MapPos(map, found.key.val)].info.gpu_type, found.key.val,
                     nvidia_list, env, selected_index)

\* set_gpu_env: [raised, key, env]
set_gpu_env(map, nvidia_list, env, selected_gpu_display_name, selected_index) ==
    env_found(map, find_gpu_key(selected_gpu_display_name, map), nvidia_list, env,
              selected_index)

EnvReturned(r, env, selected_gpu_display_name, selected_index) ==
    call' = [op |-> "set_gpu_env", label |-> selected_gpu_display_name,
             index |-> selected_index, env_in |-> env,
             raised |-> r.raised, key |-> r.key, env |-> r.env]

SetGpuEnv(env, selected_gpu_display_name, selected_index) ==
    /\ constructed
    /\ EnvReturned(set_gpu_env(gpu_info_map, nvidia_gpus, env,
                               selected_gpu_display_name, selected_index),
                   env, selected_gpu_display_name, selected_index)
    /\ UNCHANGED <<platform, machine, gpu_info_map, nvidia_gpus, amd_gpus,
                   intel_gpus, constructed, pass, input>>

(***************************************************************************)
(* Inputs                                                                  *)
(***************************************************************************)

\* what windows.get_gpu_mem_info() may return: it raises (None), or lists the
\* installed GPUs in some order, its adapters with or without a pci_bus_id
StaticInputs ==
    {None} \cup
    UNION {{Some([i \in DOMAIN o |-> StaticAdapter(o[i], h)]) : h \in BOOLEAN} :
           o \in ProbeOrders(machine)}

\* what get_nvidia_gpus() may return: nothing (the tool is missing or fails),
\* or the installed NVIDIA GPUs in some order, with or without bus ids
NvidiaInputs ==
    {<< >>} \cup
    UNION {{[i \in DOMAIN o |-> NvidiaRecord(o[i], with_pci, avail)] :
               with_pci \in BOOLEAN, avail \in AvailValues} :
           o \in ProbeOrders(machine \cap NvidiaIds)}

\* what c.Win32_VideoController() may return: it raises (None), or the names
\* of the installed GPUs
WmiInputs ==
    {None} \cup {Some([i \in DOMAIN o |-> Hardware[o[i]].name]) : o \in ProbeOrders(machine)}

PhantomGpu == <<"P", "h", "a", "n", "t", "o", "m", " ", "G", "P", "U">>

\* a label of no device that carries the tag twice
PhantomTwice == PhantomGpu \o GpuTag \o <<"0", ")">> \o GpuTag \o <<"1", ")">>

\* the labels the lists show
ListLabels ==
    {nvidia_gpus[i] : i \in DOMAIN nvidia_gpus} \cup {amd_gpus[i] : i \in DOMAIN amd_gpus}

\* the labels a caller may hold: the lists' labels, the keys, the names, and
\* two labels of no device
LabelInputs ==
    ListLabels
        \cup {gpu_info_map[i].key : i \in DOMAIN gpu_info_map}
        \cup {gpu_info_map[i].info.name : i \in DOMAIN gpu_info_map}
        \cup {PhantomGpu, PhantomTwice}

\* the labels a caller selects from: the lists' labels, and a label of no
\* device
EnvLabels == ListLabels \cup {PhantomGpu}

Model(min) == Some([minimal_gpu_memory_gib |-> min])

Calculator(base, per, zigzag, fail_above) ==
    [base |-> base, per |-> per, zigzag |-> zigzag, fail_above |-> fail_above]

CalcLinear == Calculator(256, 48, FALSE, None)
CalcZigzag == Calculator(256, 48, TRUE, None)
CalcHuge == Calculator(8192, 48, FALSE, None)
CalcFailsLong == Calculator(256, 48, FALSE, Some(12288))

\* the largest selected_index a caller passes
MaxIndex == 2

Next ==
    \/ \E records \in NvidiaInputs : DetectLinux(records)
    \/ \E adapters \in StaticInputs, records \in NvidiaInputs, wmi \in WmiInputs :
           DetectWindows(adapters, records, wmi)
    \/ DetectOther
    \/ \E l \in LabelInputs : CheckGpuAbility(l, Model(2), CalcLinear, None, None)
    \/ \E l \in EnvLabels, i \in 0..MaxIndex : SetGpuEnv(NoEnv, l, i)

Spec == Init /\ [][Next]_vars

(***************************************************************************)
(* set_gpu_env after the detection pass, without the capacity checks: it   *)
(* reads the map and the NVIDIA list and changes neither.                  *)
(***************************************************************************)

NextEnv ==
    \/ \E records \in NvidiaInputs : DetectLinux(records)
    \/ \E adapters \in StaticInputs, records \in NvidiaInputs, wmi \in WmiInputs :
           DetectWindows(adapters, records, wmi)
    \/ DetectOther
    \/ \E l \in EnvLabels, i \in 0..MaxIndex : SetGpuEnv(NoEnv, l, i)

SpecEnv == Init /\ [][NextEnv]_vars

(***************************************************************************)
(* The capacity checks on a Windows machine with one NVIDIA GPU, under     *)
(* every model, calculator and requested configuration.                    *)
(***************************************************************************)

InitAbility ==
    /\ Init
    /\ platform = "Windows"
    /\ machine = {1}

ModelInputs == {None, Model(0), Model(1), Model(2)}

CalcInputs == {CalcLinear, CalcZigzag, CalcHuge, CalcFailsLong}

\* context_length and n_parallel as a caller passes them
ConfigInputs ==
    {<<None, None>>, <<Some(2048), None>>, <<Some(2048), Some(2)>>,
     <<Some(24576), Some(2)>>}

\* the labels the lists show and the keys of the map
AbilityLabels == ListLabels \cup {gpu_info_map[i].key : i \in DOMAIN gpu_info_map}

NextAbility ==
    \/ \E adapters \in StaticInputs, records \in NvidiaInputs, wmi \in WmiInputs :
           DetectWindows(adapters, records, wmi)
    \/ \E l \in AbilityLabels, m \in ModelInputs, c \in CalcInputs, cfg \in ConfigInputs :
           CheckGpuAbility(l, m, c, cfg[1], cfg[2])

SpecAbility == InitAbility /\ [][NextAbility]_vars

(***************************************************************************)
(* SakuraCalculator.recommend_config on its own: the calculator and the    *)
(* available memory are drawn at the start, one step applies the search.   *)
(***************************************************************************)

\* the most steps of 16 MiB of available memory a search is given
MaxAvailSteps == 320

\* available memory: every 16 MiB up to the bound, and the two byte counts
\* next to 1 GiB
AvailInputs ==
    {GiBOfMiB(16 * k) : k \in 0..MaxAvailSteps}
        \cup {BytesToGiB(GiB - 1), BytesToGiB(GiB + 1)}

\* the calculators that do not fail
TotalCalcInputs == {CalcLinear, CalcZigzag, CalcHuge}

Idle ==
    /\ platform = "Linux"
    /\ machine = {}
    /\ gpu_info_map = << >>
    /\ nvidia_gpus = << >>
    /\ amd_gpus = << >>
    /\ intel_gpus = << >>
    /\ constructed = FALSE
    /\ pass = NoPass
    /\ call = NoCall

InitRecommend ==
    /\ Idle
    /\ input \in {[op |-> "recommend_config", calc |-> c, available_memory_gib |-> a] :
                     c \in TotalCalcInputs, a \in AvailInputs}

RecommendConfig ==
    /\ input.op = "recommend_config"
    /\ call = NoCall
    /\ call' = [op |-> "recommend_config",
                ret |-> recommend_config(input.calc, input.available_memory_gib)]
    /\ UNCHANGED <<platform, machine, gpu_info_map, nvidia_gpus, amd_gpus,
                   intel_gpus, constructed, pass, input>>

NextRecommend == RecommendConfig

SpecRecommend == InitRecommend /\ [][NextRecommend]_vars

(***************************************************************************)
(* GPUDisplayHelper on its own: a device and an index are drawn at the     *)
(* start, one step renders the label and parses it back.                   *)
(***************************************************************************)

\* the largest index, of either sign, a label is rendered with
MaxLabelIndex == 12

NameInputs ==
    {<<"A">>,
     <<"A", ")">>,
     <<"A", " ", "(", "2", ")">>,
     NameNvidiaA,
     <<"A">> \o GpuTag,
     <<"A">> \o GpuTag \o <<"7", ")">>}

PciInputs == {<< >>, PciBus(<<"0", "1">>), PciBus(<<"0", "a">>)}

InitLabel ==
    /\ Idle
    /\ input \in {[op |-> "parse_display_name",
                   gpu_info |-> GPUInfo(n, get_gpu_type(n), GiB, b, None),
                   index |-> i] :
                     n \in NameInputs, b \in PciInputs,
                     i \in (0 - MaxLabelIndex)..MaxLabelIndex}

LabelParsed(display_name) ==
    call' = [op |-> "parse_display_name", label |-> display_name,
             ret |-> parse_display_name(display_name)]

\* parse_display_name(create_display_name(gpu_info, index))
RenderAndParse ==
    /\ input.op = "parse_display_name"
    /\ call = NoCall
    /\ LabelParsed(create_display_name(input.gpu_info, input.index))
    /\ UNCHANGED <<platform, machine, gpu_info_map, nvidia_gpus, amd_gpus,
                   intel_gpus, constructed, pass, input>>

NextLabel == RenderAndParse

SpecLabel == InitLabel /\ [][NextLabel]_vars

(***************************************************************************)
(* Properties                                                              *)
(***************************************************************************)

\* what the calculator requires for a context length
Required(calc, context_length) ==
    calculate_memory_requirements(calc, context_length).val

\* the levels of parallelism whose context fits the available memory
FitSet(calc, available) ==
    {p \in 1..16 : GiBLeq(Required(calc, 1536 * p), available)}

LargestOf(S) == CHOOSE p \in S : \A q \in S : q <= p

ExpectedConfig(S) ==
    IF S = {} THEN Config(FALSE, 1536, 1)
    ELSE Config(FALSE, 1536 * LargestOf(S), LargestOf(S))

\* C1: for every available memory and every calculator that does not fail,
\* recommend_config returns context 1536*p and parallelism p for the largest
\* p in 1..16 whose requirement is at most the available memory, and exactly
\* context 1536 with parallelism 1 when no p fits.
C1_RecommendLargestFit ==
    call.op = "recommend_config" =>
        call.ret = ExpectedConfig(FitSet(input.calc, input.available_memory_gib))

\* C1 case: a calculator that is not monotonic, and a level strictly between
\* the floor and the ceiling is returned
C1_Witness ==
    /\ call.op = "recommend_config"
    /\ input.calc.zigzag
    /\ call.ret.n_parallel \in 2..15
    /\ call.ret.context_length = 1536 * call.ret.n_parallel

\* the entries of the map that stand for the physical GPU p
EntriesOf(p) == {i \in DOMAIN gpu_info_map : p \in gpu_info_map[i].srcs}

\* C2 (as stated): after a detection pass on Windows, a physical GPU that both
\* the static probe and the NVIDIA probe reported has exactly one entry in the
\* map, keyed by its bus id when a probe gave one and by its name otherwise.
C2_OneEntryPerGpu ==
    (constructed /\ platform = "Windows") =>
        \A p \in pass.static \cap pass.nvidia :
            /\ Cardinality(EntriesOf(p)) = 1
            /\ \A i \in EntriesOf(p) :
                   gpu_info_map[i].key =
                       IF p \in pass.pci THEN Hardware[p].pci ELSE Hardware[p].name

\* C3 (as stated): every label the detection pass rendered into the NVIDIA
\* list resolves, by find_gpu_key, to the key of the device it was rendered
\* for.
C3_LabelResolvesToItsDevice ==
    constructed =>
        \A i \in DOMAIN pass.rendered :
            find_gpu_key(pass.rendered[i].label, gpu_info_map)
                = Found(FALSE, Some(pass.rendered[i].key))

\* C4 (as stated): after a check_gpu_ability call whose label resolves to a
\* device, the ability cached on that device is the ability the call
\* returned, whichever branch gave it.
C4_CachedAbilityIsReturned ==
    (call.op = "check_gpu_ability" /\ ~call.raised /\ call.key.some) =>
        gpu_info_map[MapPos(gpu_info_map, call.key.val)].info.ability = call.ret

\* the calculator fails in the search from 16 down: it raises at some level
\* that every level above did not fit
SearchFails(calc, available) ==
    \E p \in 1..16 :
        /\ ~calculate_memory_requirements(calc, 1536 * p).some
        /\ \A q \in (p + 1)..16 :
               /\ calculate_memory_requirements(calc, 1536 * q).some
               /\ ~GiBLeq(Required(calc, 1536 * q), available)

\* the calculator fails on the way of the dynamic check of the call
CalculatorFails(calc, available, context_length, n_parallel) ==
    IF context_length.some /\ n_parallel.some
    THEN ~calculate_memory_requirements(calc, context_length.val).some
    ELSE SearchFails(calc, available)

\* the last call was a dynamic check of a supported device for a known model
DynamicCheck ==
    /\ call.op = "check_gpu_ability"
    /\ call.before.some
    /\ call.before.val.gpu_type \in {NVIDIA, AMD}
    /\ call.before.val.avail_dedicated_gpu_memory.some
    /\ call.model.some

\* the dynamic check of the last call met a failing calculator
DynamicCheckFailing ==
    /\ DynamicCheck
    /\ CalculatorFails(call.calc,
                       BytesToGiB(call.before.val.avail_dedicated_gpu_memory.val),
                       call.context_length, call.n_parallel)

\* C5 (amended): in dynamic mode with a known model, when the calculator
\* fails, check_gpu_ability raises nothing and is not capable exactly when the
\* model's minimum is nonzero and the remaining memory, not rounded, is below
\* it.
C5_FallbackOnRemaining ==
    DynamicCheckFailing =>
        /\ ~call.raised
        /\ call.ret.some
        /\ call.ret.val.is_capable =
               ~(/\ call.model.val.minimal_gpu_memory_gib # 0
                 /\ GiBLess(BytesToGiB(call.before.val.avail_dedicated_gpu_memory.val),
                            GiBInt(call.model.val.minimal_gpu_memory_gib)))

\* C5 case: the calculator failed, and the remaining memory is below a
\* minimum that the total memory rounded up reaches
C5_Witness ==
    /\ DynamicCheckFailing
    /\ ~call.ret.val.is_capable
    /\ _check_static_memory(call.before.val, call.model).is_capable

\* C5 (as stated): when the calculator fails the verdict is that of the
\* static check: the total memory, rounded up above 1 GiB, against the
\* model's nonzero minimum.
C5_FallbackOnTotal ==
    DynamicCheckFailing =>
        /\ ~call.raised
        /\ call.ret.some
        /\ call.ret.val.is_capable =
               _check_static_memory(call.before.val, call.model).is_capable

\* the verdict C6 states for a calculator that does not fail
DynamicVerdict(calc, available, context_length, n_parallel) ==
    IF context_length.some /\ n_parallel.some
    THEN ~GiBLess(available, Required(calc, context_length.val))
    ELSE FitSet(calc, available) # {}

\* C6: in dynamic mode with a known model and a calculator that does not
\* fail, with both context length and parallelism given the device is not
\* capable exactly when the remaining memory is below the requirement of that
\* context length; with either absent it is capable exactly when some p in
\* 1..16 has a requirement for 1536*p within the remaining memory.
C6_DynamicVerdict ==
    (DynamicCheck /\ ~call.calc.fail_above.some) =>
        /\ ~call.raised
        /\ call.ret.some
        /\ call.ret.val.is_capable =
               DynamicVerdict(call.calc,
                              BytesToGiB(call.before.val.avail_dedicated_gpu_memory.val),
                              call.context_length, call.n_parallel)

\* C6 case: no configuration given, a calculator that is not monotonic, and
\* the search finds a level that fits below the ceiling
C6_Witness ==
    /\ DynamicCheck
    /\ call.calc = CalcZigzag
    /\ ~call.context_length.some
    /\ call.ret.val.is_capable
    /\ 16 \notin FitSet(call.calc,
                        BytesToGiB(call.before.val.avail_dedicated_gpu_memory.val))

\* the last call was a static check of a supported device of 2^30 + 1 bytes
\* for a model whose minimum is 2 GiB
StaticCheckJustOverOne ==
    /\ call.op = "check_gpu_ability"
    /\ call.before.some
    /\ call.before.val.gpu_type \in {NVIDIA, AMD}
    /\ ~call.before.val.avail_dedicated_gpu_memory.some
    /\ call.before.val.dedicated_gpu_memory = 1073741824 + 1
    /\ call.model = Model(2)

\* C7 (amended): a static-mode device of a supported vendor with 2^30 + 1
\* bytes of total memory, checked for a model whose minimum is 2 GiB, is
\* capable: the total is rounded up to 2 GiB, which is not below 2.
C7_JustOverOneIsCapable ==
    StaticCheckJustOverOne => call.ret = Some(Ability(TRUE, ""))

\* C7 case: such a device has been checked for such a model
C7_Witness == StaticCheckJustOverOne /\ ~call.raised /\ call.ret.some

\* C7 (as stated): that device is not capable.
C7_JustOverOneIsNotCapable ==
    StaticCheckJustOverOne => (call.ret.some /\ ~call.ret.val.is_capable)

\* the last call was set_gpu_env with a label of an AMD device
AmdEnvCall ==
    /\ call.op = "set_gpu_env"
    /\ ~call.raised
    /\ call.key.some
    /\ gpu_info_map[MapPos(gpu_info_map, call.key.val)].info.gpu_type = AMD

\* the NVIDIA entries of the map
NvidiaEntries == {i \in DOMAIN gpu_info_map : gpu_info_map[i].info.gpu_type = NVIDIA}

\* C8 (amended): for a label of an AMD device and any index, set_gpu_env sets
\* HIP_VISIBLE_DEVICES to the decimal string of the index minus the length of
\* the NVIDIA display list, which is the number of records the NVIDIA probe
\* reported in the detection pass, and leaves CUDA_VISIBLE_DEVICES as it was;
\* with two NVIDIA records and one AMD device, index 2 gives "0".
C8_HipIsIndexMinusNvidiaList ==
    AmdEnvCall =>
        /\ call.env.HIP_VISIBLE_DEVICES = Some(PyStr(call.index - Len(nvidia_gpus)))
        /\ Len(nvidia_gpus) = Cardinality(pass.nvidia)
        /\ call.env.CUDA_VISIBLE_DEVICES = call.env_in.CUDA_VISIBLE_DEVICES

\* C8 case: two NVIDIA devices and one AMD device, index 2 gives "0"
C8_Witness ==
    /\ AmdEnvCall
    /\ Len(nvidia_gpus) = 2
    /\ Cardinality(NvidiaEntries) = 2
    /\ call.index = 2
    /\ call.env.HIP_VISIBLE_DEVICES = Some(<<"0">>)

\* C8 (as stated): HIP_VISIBLE_DEVICES is the decimal string of the index
\* minus the number of NVIDIA entries of the map, CUDA_VISIBLE_DEVICES is
\* not set.
C8_HipIsIndexMinusNvidiaEntries ==
    AmdEnvCall =>
        /\ call.env.HIP_VISIBLE_DEVICES =
               Some(PyStr(call.index - Cardinality(NvidiaEntries)))
        /\ call.env.CUDA_VISIBLE_DEVICES = None

\* C9 (as stated): for a device with a bus id, whatever its name, and any
\* index, parsing the label rendered for them returns the name and the index
\* and raises nothing.
C9_RoundTrip ==
    (call.op = "parse_display_name" /\ Len(input.gpu_info.pci_bus_id) > 0) =>
        call.ret = Parsed(FALSE, input.gpu_info.name, Some(input.index))

\* the name a label parses to, the label itself when it does not parse
ParsedName(label) ==
    IF parse_display_name(label).raised THEN label ELSE parse_display_name(label).name

\* the label is no key of the map and parses to no device's name
Unresolvable(label, map) ==
    /\ Len(map) > 0
    /\ ~MapHas(map, label)
    /\ \A i \in DOMAIN map : map[i].info.name # ParsedName(label)

\* C10 (as stated): on a map that is not empty, check_gpu_ability of a label
\* that is no key and parses to no device's name returns a not-capable
\* ability with the "not found" reason, raises nothing, and leaves the map,
\* its keys and every device's fields as they were.
C10_UnresolvableIsNotFound ==
    [][(call'.op = "check_gpu_ability" /\ Unresolvable(call'.label, gpu_info_map)) =>
           /\ ~call'.raised
           /\ call'.ret = Some(Ability(FALSE, "not found"))
           /\ gpu_info_map' = gpu_info_map]_vars

\* the NVIDIA record rendered at position i of the list carried a bus id
RenderedWithBusId(i) == pass.rendered[i].key = Hardware[pass.rendered[i].phys].pci

\* the index derived from the bus id of the record rendered at position i
RenderedIndex(i) == get_gpu_index_from_pci(Hardware[pass.rendered[i].phys].pci)

\* C11 (as stated): after a detection pass, in whatever order the NVIDIA
\* probe reported its records, the labels of the NVIDIA display list that were
\* rendered from a bus id stand in ascending order of the index derived from
\* it.
C11_NvidiaListAscending ==
    constructed =>
        /\ Len(nvidia_gpus) = Len(pass.rendered)
        /\ \A i, j \in DOMAIN pass.rendered :
               (i < j /\ RenderedWithBusId(i) /\ RenderedWithBusId(j)) =>
                   /\ nvidia_gpus[i] = pass.rendered[i].label
                   /\ nvidia_gpus[j] = pass.rendered[j].label
                   /\ RenderedIndex(i) <= RenderedIndex(j)

====
